---- MODULE Spec2Model ----
(***************************************************************************)
(* Model of the Welcome Nights slide builder (backend/app/slide_builder.py *)
(* with the crud.py operations and the main.py endpoint it runs under).    *)
(*                                                                         *)
(* Python values are encoded as follows:                                   *)
(*   None / Optional  : <<>> is None, <<v>> is the value v                 *)
(*   dict             : record                                             *)
(*   list             : sequence                                           *)
(*   f-string         : string concatenation with \o                       *)
(* The one non-ASCII character of the source, the ellipsis, is written     *)
(* "..." in the strings below.                                             *)
(***************************************************************************)
EXTENDS Integers, Sequences, FiniteSets, TLC

(***************************************************************************)
(* Bounds of the model.                                                    *)
(***************************************************************************)
\* game ids 1..NumGames can be rows of the games table; NumGames+1 never is
NumGames == 2
\* largest raffle_count a direct call of build_slides is given
MaxRaffle == 3
\* longest selected_game_ids list a direct call of build_slides is given
MaxSel == 3
\* largest raffle_count of a request to the build-slides endpoint
MaxReqRaffle == 1
\* longest selected_game_ids list of a request to the build-slides endpoint
MaxReqSel == 1

None == <<>>
\* the empty dict {}
EmptyDict == [k \in {} |-> None]
Some(v) == <<v>>
Option(S) == {None} \cup {Some(v) : v \in S}

\* dict.get(key) and dict.get(key, default)
DictGet(d, key, default) == IF key \in DOMAIN d THEN d[key] ELSE default

GameIds == 1..NumGames
AnyGameIds == 1..(NumGames + 1)

(***************************************************************************)
(* Module constants of slide_builder.py.                                   *)
(***************************************************************************)
AV3_SLIDE_TYPES ==
  << "TitleSlide", "WelcomeSlide", "IcebreakerGame", "HistoryIntro",
     "HistoryTimeline", "FootprintStats", "RegionsMap", "CultureIntro",
     "CultureComparison", "FieldIntro", "RaffleBumper", "TransitionSlide",
     "ValueFamily", "ChallengeGame", "ValueOwnership", "ChallengeGame",
     "ValueResponsibility", "ChallengeGame", "ValueCelebration",
     "ChallengeGame", "ValueExperience", "ChallengeGame", "ThreePillars",
     "RaffleBumper", "EndSlide" >>

DEFAULT_CHALLENGES ==
  << [title |-> "Cookie", value |-> "FAMILY",
      rules |-> "Place cookie on forehead, move it to mouth without hands"],
     [title |-> "Cup Stacking", value |-> "OWNERSHIP",
      rules |-> "Stack cups into pyramid, then back down"],
     [title |-> "Marshmallows", value |-> "RESPONSIBILITY",
      rules |-> "Move marshmallows with chopsticks"],
     [title |-> "Pencils", value |-> "CELEBRATION",
      rules |-> "Balance pencils on back of hands"],
     [title |-> "Flip Cup", value |-> "EXPERIENCE",
      rules |-> "Drink and flip cup upside down"] >>

CORE_VALUES ==
  << "FAMILY", "OWNERSHIP", "RESPONSIBILITY", "CELEBRATION", "EXPERIENCE" >>

\* str.title() on the five core values: first letter kept, the rest lowered
StrTitle(value) ==
  CASE value = "FAMILY" -> "Family"
    [] value = "OWNERSHIP" -> "Ownership"
    [] value = "RESPONSIBILITY" -> "Responsibility"
    [] value = "CELEBRATION" -> "Celebration"
    [] value = "EXPERIENCE" -> "Experience"

\* `a or b` on Optional values: b when a is None (or an empty string)
PyOr(a, b) == IF a = None \/ a = Some("") THEN b ELSE a

(***************************************************************************)
(* generate_av3_slides, block by block.  A slide is the dict               *)
(* {order, slide_type, payload, notes}.                                    *)
(***************************************************************************)
Slide(order, slide_type, payload, notes) ==
  [order |-> order, slide_type |-> slide_type, payload |-> payload,
   notes |-> notes]

\* primary_color = brand.primary_color or "#0b7280"
PrimaryColor(brand) == PyOr(brand.primary_color, Some("#0b7280"))[1]

\* facility_logo or brand.logo_url
LogoUrl(brand, facility_logo) == PyOr(facility_logo, brand.logo_url)

TitleSlide(brand, facility, facility_logo) ==
  Slide(0, "TitleSlide",
        [brand_name |-> brand.name, facility_name |-> facility.name,
         logo_url |-> LogoUrl(brand, facility_logo)],
        "Title slide with facility logo")

WelcomeSlide(brand) ==
  Slide(1, "WelcomeSlide",
        [title |-> "Welcome to Culture Night!!!",
         bullets |-> << "We are excited to introduce " \o brand.name
                          \o " to you all!",
                        "Help yourself to food and drinks!",
                        "We want this to be fun!!!",
                        "We have raffles and games with prizes, so be ready to participate!" >>,
         primary_color |-> PrimaryColor(brand)],
        "Welcome everyone to Culture Night")

IcebreakerSlide(brand, icebreaker_game) ==
  IF icebreaker_game # None
  THEN Slide(2, "IcebreakerGame",
             [title |-> "Let's break the ice...Game 1: "
                          \o icebreaker_game[1].title,
              game_title |-> icebreaker_game[1].title,
              rules |-> icebreaker_game[1].rules,
              primary_color |-> PrimaryColor(brand)],
             "Icebreaker: " \o icebreaker_game[1].title)
  ELSE Slide(2, "IcebreakerGame",
             [title |-> "Let's break the ice...Game 1: Musical Chairs",
              game_title |-> "Musical Chairs",
              rules |-> "5 Players\nMusic plays, players walk\nMusic stops, players sit\nPlayer without a chair is eliminated\nLast player with a seat wins",
              primary_color |-> PrimaryColor(brand)],
             "Icebreaker: Musical Chairs")

HistoryIntro(brand) ==
  Slide(3, "HistoryIntro", [brand_name |-> brand.name], "History intro image")

HistoryTimeline(brand) ==
  Slide(4, "HistoryTimeline",
        [title |-> "The " \o brand.name \o " \"Family\"",
         events |-> << [date |-> "March 2015", text |-> "Company founded"],
                       [date |-> "October 2021", text |-> "Expansion began"],
                       [date |-> "December 2025", text |-> "Continued growth"] >>,
         primary_color |-> PrimaryColor(brand)],
        "Company history timeline")

FootprintStats(brand) ==
  Slide(5, "FootprintStats",
        [title |-> "OUR GROWING FOOTPRINT",
         stats |-> << [value |-> "65+", label |-> "Facilities"],
                      [value |-> "5", label |-> "States"],
                      [value |-> "5,000+", label |-> "Team Members"] >>,
         primary_color |-> PrimaryColor(brand)],
        "Company footprint statistics")

RegionsMap(brand) ==
  Slide(6, "RegionsMap",
        [title |-> "5 Healthcare Company Regions",
         regions |-> << [name |-> "prior_lake", label |-> "Prior Lake"],
                        [name |-> "portland", label |-> "Portland"],
                        [name |-> "olympia", label |-> "Olympia"],
                        [name |-> "boise", label |-> "Boise"],
                        [name |-> "denver", label |-> "Denver"] >>,
         primary_color |-> PrimaryColor(brand)],
        "Regional map")

CultureIntro(brand) ==
  Slide(7, "CultureIntro",
        [title |-> "WE ARE NOT CORPORATE!",
         subtitle |-> "The " \o brand.name \o " Way...",
         primary_color |-> PrimaryColor(brand)],
        "Culture intro - we are not corporate")

CultureComparison(brand) ==
  Slide(8, "CultureComparison",
        [left_title |-> "The Common Way...",
         right_title |-> "The " \o brand.name \o " Way...",
         comparisons |->
           << [common |-> "Technically we can't do that...",
               ours |-> "Let's figure it out together!"],
              [common |-> "It's not my job.",
               ours |-> "We are all part of the same team!"],
              [common |-> "That's above my pay grade.",
               ours |-> "Let me connect you with someone who can help!"] >>,
         primary_color |-> PrimaryColor(brand)],
        "Common way vs our way comparison")

FieldIntro(brand) ==
  Slide(9, "FieldIntro",
        [title |-> "Field", primary_color |-> PrimaryColor(brand)],
        "Field intro transition")

\* slides 1-10 of the template, appended unconditionally with fixed orders
FixedHead(brand, facility, facility_logo, icebreaker_game) ==
  << TitleSlide(brand, facility, facility_logo), WelcomeSlide(brand),
     IcebreakerSlide(brand, icebreaker_game), HistoryIntro(brand),
     HistoryTimeline(brand), FootprintStats(brand), RegionsMap(brand),
     CultureIntro(brand), CultureComparison(brand), FieldIntro(brand) >>

\* 11. Raffle #1: if raffle_count >= 1, appended with the fixed order 10
Raffle1(slides, raffle_count) ==
  IF raffle_count >= 1
  THEN Append(slides,
              Slide(10, "RaffleBumper",
                    [title |-> "RAFFLE",
                     subtitle |-> "Time to draw a winner!",
                     raffle_number |-> 1],
                    "Raffle #1"))
  ELSE slides

\* the transition slide is left out
Transition_Omitted(slides) == slides

\* 12. Transition: appended with the fixed order 11
Transition(slides) ==
  Append(slides, Slide(11, "TransitionSlide", EmptyDict, "Transition slide"))

\* Value slide of loop iteration i (0-based), order = len(slides)
ValueSlide(slides, brand, i) ==
  Slide(Len(slides), "Value" \o StrTitle(CORE_VALUES[i + 1]),
        [value |-> CORE_VALUES[i + 1], primary_color |-> PrimaryColor(brand)],
        "Value: " \o CORE_VALUES[i + 1])

\* Challenge slide bound to a game record of challenge_games
GameChallengeSlide(slides, brand, i, game) ==
  Slide(Len(slides), "ChallengeGame",
        [title |-> "Challenge " \o ToString(i + 1) \o ": " \o game.title,
         game_title |-> game.title,
         rules |-> game.rules,
         value |-> CORE_VALUES[i + 1],
         challenge_number |-> i + 1,
         primary_color |-> PrimaryColor(brand)],
        "Challenge " \o ToString(i + 1) \o ": " \o game.title)

\* Challenge slide filled from DEFAULT_CHALLENGES[i]
DefaultChallengeSlide(slides, brand, i) ==
  Slide(Len(slides), "ChallengeGame",
        [title |-> "Challenge " \o ToString(i + 1) \o ": "
                     \o DEFAULT_CHALLENGES[i + 1].title,
         game_title |-> DEFAULT_CHALLENGES[i + 1].title,
         rules |-> DEFAULT_CHALLENGES[i + 1].rules,
         value |-> CORE_VALUES[i + 1],
         challenge_number |-> i + 1,
         primary_color |-> PrimaryColor(brand)],
        "Challenge " \o ToString(i + 1) \o ": "
          \o DEFAULT_CHALLENGES[i + 1].title)

\* the loop body with the other exhaustion policy: no slide once the games ran out
ChallengeStep_Omit(slides, brand, i, challenge_index, challenge_games) ==
  IF challenge_index < Len(challenge_games)
  THEN [slides |-> Append(slides,
                     GameChallengeSlide(slides, brand, i,
                                        challenge_games[challenge_index + 1])),
        challenge_index |-> challenge_index + 1]
  ELSE [slides |-> slides, challenge_index |-> challenge_index]

\* the branch `if challenge_index < len(challenge_games)` of the loop body
ChallengeStep(slides, brand, i, challenge_index, challenge_games) ==
  IF challenge_index < Len(challenge_games)
  THEN [slides |-> Append(slides,
                     GameChallengeSlide(slides, brand, i,
                                        challenge_games[challenge_index + 1])),
        challenge_index |-> challenge_index + 1]
  ELSE [slides |-> Append(slides, DefaultChallengeSlide(slides, brand, i)),
        challenge_index |-> challenge_index]

\* for i, value in enumerate(CORE_VALUES): iterations i .. 4
RECURSIVE ValuesAndChallenges(_, _, _, _, _)
ValuesAndChallenges(slides, brand, i, challenge_index, challenge_games) ==
  IF i >= Len(CORE_VALUES)
  THEN slides
  ELSE LET withValue == Append(slides, ValueSlide(slides, brand, i))
           step == ChallengeStep(withValue, brand, i, challenge_index,
                                 challenge_games)
       IN  ValuesAndChallenges(step.slides, brand, i + 1,
                               step.challenge_index, challenge_games)

\* 23. Three Pillars, order = len(slides)
ThreePillars(slides, brand) ==
  Append(slides,
         Slide(Len(slides), "ThreePillars",
               [title |-> "3 Pillars",
                pillars |->
                  << [name |-> "Clinical",
                      description |-> "Excellence in patient care"],
                     [name |-> "Cultural",
                      description |-> "Our people and values"],
                     [name |-> "Financial",
                      description |-> "Sustainable success"] >>,
                primary_color |-> PrimaryColor(brand)],
               "Three pillars closing"))

Raffle2Slide(slides) ==
  Slide(Len(slides), "RaffleBumper",
        [title |-> "RAFFLE",
         subtitle |-> "Time to draw another winner!",
         raffle_number |-> 2],
        "Raffle #2")

\* Raffle #2 with the threshold of Raffle #1
Raffle2_Threshold1(slides, raffle_count) ==
  IF raffle_count >= 1 THEN Append(slides, Raffle2Slide(slides)) ELSE slides

\* 24. Raffle #2: if raffle_count >= 2, order = len(slides)
Raffle2(slides, raffle_count) ==
  IF raffle_count >= 2 THEN Append(slides, Raffle2Slide(slides)) ELSE slides

\* 25. End Slide, order = len(slides)
EndSlide(slides, brand, facility, facility_logo) ==
  Append(slides,
         Slide(Len(slides), "EndSlide",
               [brand_name |-> brand.name, facility_name |-> facility.name,
                logo_url |-> LogoUrl(brand, facility_logo)],
               "End slide with logo"))

\* generate_av3_slides for an integer raffle_count
generate_av3_slides(brand, facility, facility_logo, icebreaker_game, challenge_games, raffle_count) ==
  LET head == FixedHead(brand, facility, facility_logo, icebreaker_game)
      s11 == Raffle1(head, raffle_count)
      s12 == Transition(s11)
      s22 == ValuesAndChallenges(s12, brand, 0, 0, challenge_games)
      s23 == ThreePillars(s22, brand)
      s24 == Raffle2(s23, raffle_count)
  IN  EndSlide(s24, brand, facility, facility_logo)

SlideTypes(slides) == [k \in 1..Len(slides) |-> slides[k].slide_type]

(***************************************************************************)
(* The database and the requests in flight.                                *)
(***************************************************************************)
\* ids of the rows of the presentations table; any other id is not found
PresentationIds == {1}
\* presentation ids a request can name
RequestPids == PresentationIds \cup {2}
\* the threads of the server's pool that serve build-slides requests
Workers == {1, 2}

\* the content_key values of ReusableContent
CONTENT_KEYS == {"history", "footprint", "regions", "culture"}

\* a brand with no colour and no logo that has the four reusable content rows;
\* `content` holds the content_key of the brand's ReusableContent rows
Cascadia ==
  [name |-> "Cascadia", primary_color |-> None, logo_url |-> None,
   content |-> CONTENT_KEYS]

\* a brand with a colour and a logo, created with POST /api/brands: it has no
\* reusable content row
Olympus ==
  [name |-> "Olympus", primary_color |-> Some("#123456"),
   logo_url |-> Some("/uploads/olympus.png"), content |-> {}]

Brands == {Cascadia, Olympus}

\* logo_asset_id is the id of the assets row upload_facility_logo stored
Facilities ==
  { [name |-> "Prior Lake Care", logo_asset_id |-> None,
     latitude |-> None, longitude |-> None] }

\* the same facility as the import stores it, with coordinates
FacilitiesWithCoords ==
  { [name |-> "Prior Lake Care", logo_asset_id |-> None,
     latitude |-> Some(45), longitude |-> Some(0 - 122)] }

\* the row create_game stores under id g
GameRow(g, is_active) ==
  [title |-> "Game " \o ToString(g), rules |-> "Rules of game " \o ToString(g),
   is_active |-> is_active]

GameTables ==
  { t \in [AnyGameIds -> Option({GameRow(g, a) : g \in GameIds, a \in BOOLEAN})] :
      /\ t[NumGames + 1] = None
      /\ \A g \in GameIds : t[g] # None => t[g][1].title = GameRow(g, TRUE).title }

RaffleCounts(minr, maxr) == {None} \cup {Some(n) : n \in minr..maxr}
Selections(maxlen) == UNION {[1..n -> AnyGameIds] : n \in 0..maxlen}

\* config dicts given to build_slides directly; {} stands for absent keys
FullConfigs ==
  [raffle_count : RaffleCounts(0 - 1, MaxRaffle),
   selected_game_ids : Option(Selections(MaxSel)),
   icebreaker_game_id : Option(AnyGameIds)] \cup {EmptyDict}

\* the game ids the requests name: a stored game and an id that never is one
RequestGameIds == {1, NumGames + 1}
RequestSelections(maxlen) == UNION {[1..n -> RequestGameIds] : n \in 0..maxlen}

\* BuildSlidesRequest objects with the given field values
BuildSlidesRequests(raffle_counts, selections, toggles) ==
  [raffle_count : raffle_counts,
   selected_game_ids : {Some(ids) : ids \in selections},
   include_history : toggles, include_footprint : toggles,
   include_regions : toggles, include_culture : toggles]

\* the requests whose body leaves the include_* toggles at their default
Requests ==
  BuildSlidesRequests(RaffleCounts(0, MaxReqRaffle),
                      RequestSelections(MaxReqSel), {Some(TRUE)})

\* JSON bodies of POST /api/presentations/{id}/build-slides: every recognised
\* option of the configuration document, raffle_count any integer or null
Bodies ==
  [raffle_count : RaffleCounts(0 - 1, MaxReqRaffle),
   selected_game_ids : {Some(ids) : ids \in RequestSelections(MaxReqSel)},
   icebreaker_game_id : Option(RequestGameIds),
   include_history : BOOLEAN, include_footprint : BOOLEAN,
   include_regions : BOOLEAN, include_culture : BOOLEAN]

\* pydantic validation of a body: the declared fields are kept, a key that
\* BuildSlidesRequest does not declare is ignored
BuildSlidesRequest(body) ==
  [raffle_count |-> DictGet(body, "raffle_count", Some(0)),
   selected_game_ids |-> DictGet(body, "selected_game_ids", None),
   include_history |-> Some(DictGet(body, "include_history", TRUE)),
   include_footprint |-> Some(DictGet(body, "include_footprint", TRUE)),
   include_regions |-> Some(DictGet(body, "include_regions", TRUE)),
   include_culture |-> Some(DictGet(body, "include_culture", TRUE))]

\* the requests two clients send at the same time
ConcurrentRequests == {r \in Requests : r.selected_game_ids = Some(<< >>)}

\* request.model_dump(): the declared fields of BuildSlidesRequest
model_dump(request) ==
  [raffle_count |-> request.raffle_count,
   selected_game_ids |-> request.selected_game_ids,
   include_history |-> request.include_history,
   include_footprint |-> request.include_footprint,
   include_regions |-> request.include_regions,
   include_culture |-> request.include_culture]

\* rows of the agenda_templates table (create_agenda_template stores any
\* slide_order list); id 2 names no row
AgendaTemplateIds == {1}
agenda_templates ==
  [t \in AgendaTemplateIds |->
     [slide_order |-> << "Welcome", "History", "Footprint", "Regions",
                         "Culture", "Closing" >>]]
\* the ids presentations.agenda_template_id can hold (no foreign key check)
AnyTemplateIds == AgendaTemplateIds \cup {2}

\* the assets row upload_facility_logo stores for the facility
FacilityLogoAsset ==
  [id |-> 2, asset_type |-> "facility_logo", url |-> "/uploads/facility_1.png"]

\* config documents PUT /api/presentations/{id} stores
UpdateConfigs == { [raffle_count |-> Some(1), selected_game_ids |-> None] }

VARIABLES
  brand,        \* Option: the brands row presentation.brand_id refers to
  facility,     \* Option: the facilities row presentation.facility_id refers to
  logo_assets,  \* ids of the brand's assets rows with asset_type "logo"
  games,        \* games table: id -> Option(row)
  slides,       \* presentation_slides rows per presentation, in rowid order
  config,       \* presentations.config per presentation (Option)
  pc,           \* per worker: position of its build-slides request
  req,          \* per worker: presentation_id and config of its call
  built,        \* per worker: the list `slides` of build_slides
  before,       \* per worker: the stored rows and their origin when the call started
  origin,       \* per presentation: the configs of the calls whose rows are stored now
  touched,      \* a brand, facility or game row was written since the stored rows
                \* were inserted (the rows are written between calls only)
  agenda_template_id,  \* presentations.agenda_template_id per presentation (Option)
  \* presentation_export.py: one call of export_to_pptx
  template,     \* the slides of the AV3 template file
  files,        \* the files on disk: the uploaded logo, temporary files
  pptx,         \* the document loaded from the template and edited in place
  epc,          \* position of the export call
  slide_idx,    \* index of the template slide being processed
  facility_logo_path,  \* Option: the path export_to_pptx derives from the asset url
  image_data,   \* Option: the bytes urlopen returned in add_footprint_map
  tmp_path,     \* Option: the local tmp_path of add_footprint_map
  \* reusable content, export file names and the generated backends
  reusable_content,  \* reusable_content rows in id order (row id = position)
  title,        \* presentation.title, a sequence of characters
  filename,     \* Option: the sanitized part of the name get_export_filename returned
  read_slides,  \* Option: the rows get_presentation_slides returned to the export
  gen_pptx,     \* Option: the slides export_generated_slides emitted
  gen_pdf,      \* Option: the pages export_to_pdf emitted
  run,          \* Option: one text run of a template slide, before and after update_text_frame
  content_session  \* per database session: the update_content call it serves

\* the variables of the content table, the file name and the generated backends
auxvars == << reusable_content, title, filename, read_slides, gen_pptx, gen_pdf, run, content_session >>

\* the variables of the export
exvars == << template, files, pptx, epc, slide_idx, facility_logo_path,
             image_data, tmp_path >>

\* the variables of the database and of the build-slides requests
buildvars == << brand, facility, logo_assets, games, slides, config, pc, req,
                built, before, origin, touched, agenda_template_id >>

vars == << buildvars, exvars, auxvars >>

dbvars == << agenda_template_id, brand, facility, logo_assets, games, slides, config, origin >>

NoReq == [presentation_id |-> 0, config |-> EmptyDict]
NoBefore == [slides |-> << >>, origin |-> << >>, touched |-> FALSE]

(***************************************************************************)
(* crud.py                                                                 *)
(***************************************************************************)
get_presentation(presentation_id) ==
  IF presentation_id \in PresentationIds THEN Some(presentation_id) ELSE None

get_game(game_id) == IF game_id \in DOMAIN games THEN games[game_id] ELSE None

\* a delete that removes no row
delete_presentation_slides_KeepsRows(presentation_id) ==
  /\ slides' = slides
  /\ origin' = [origin EXCEPT ![presentation_id] = << >>]

\* filter(presentation_id == ...).delete(); commit
delete_presentation_slides(presentation_id) ==
  /\ slides' = [slides EXCEPT ![presentation_id] = << >>]
  /\ origin' = [origin EXCEPT ![presentation_id] = << >>]

\* one row per slide dict, order/slide_type/payload/notes copied; commit
SlideRow(slide_data) ==
  [order |-> DictGet(slide_data, "order", 0),
   slide_type |-> DictGet(slide_data, "slide_type", ""),
   payload |-> DictGet(slide_data, "payload", EmptyDict),
   notes |-> DictGet(slide_data, "notes", "")]

SlideRows(slide_list) == [k \in 1..Len(slide_list) |-> SlideRow(slide_list[k])]

bulk_create_slides(presentation_id, slide_list, call) ==
  /\ slides' = [slides EXCEPT ![presentation_id] = @ \o SlideRows(slide_list)]
  /\ origin' = [origin EXCEPT ![presentation_id] = Append(@, call)]

(***************************************************************************)
(* build_slides                                                            *)
(***************************************************************************)
\* the games resolved in the reverse of the supplied order
RECURSIVE ResolveGames_Reversed(_)
ResolveGames_Reversed(selected_game_ids) ==
  IF selected_game_ids = << >>
  THEN << >>
  ELSE LET game == get_game(Head(selected_game_ids))
       IN  IF game # None
           THEN ResolveGames_Reversed(Tail(selected_game_ids)) \o << game[1] >>
           ELSE ResolveGames_Reversed(Tail(selected_game_ids))

\* games = [crud.get_game(db, gid) for gid in selected_game_ids if found]
RECURSIVE ResolveGames(_)
ResolveGames(selected_game_ids) ==
  IF selected_game_ids = << >>
  THEN << >>
  ELSE LET game == get_game(Head(selected_game_ids))
       IN  IF game # None
           THEN << game[1] >> \o ResolveGames(Tail(selected_game_ids))
           ELSE ResolveGames(Tail(selected_game_ids))

\* selected_game_ids = config.get("selected_game_ids") or []
SelectedGameIds(cfg) ==
  LET v == DictGet(cfg, "selected_game_ids", None)
  IN  IF v = None THEN << >> ELSE v[1]

\* icebreaker_game = crud.get_game(db, icebreaker_game_id) if icebreaker_game_id
IcebreakerGame(cfg) ==
  LET v == DictGet(cfg, "icebreaker_game_id", None)
  IN  IF v = None \/ v = Some(0) THEN None ELSE get_game(v[1])

\* config.get("raffle_count", 2)
RaffleCount(cfg) == DictGet(cfg, "raffle_count", Some(2))

\* if not brand or not facility
MissingData == brand = None \/ facility = None

Begin(w, presentation_id, cfg) ==
  /\ pc[w] = "idle"
  /\ req' = [req EXCEPT ![w] = [presentation_id |-> presentation_id,
                                config |-> cfg]]
  /\ before' = [before EXCEPT ![w] =
        IF presentation_id \in PresentationIds
        THEN [slides |-> slides[presentation_id],
              origin |-> origin[presentation_id],
              touched |-> touched]
        ELSE NoBefore]

\* the check of lines 68-76 made after the clear of line 111
BuildNotFound_AfterClear(w, presentation_id, cfg) ==
  /\ Begin(w, presentation_id, cfg)
  /\ get_presentation(presentation_id) = None \/ MissingData
  /\ pc' = [pc EXCEPT ![w] = "http400"]
  /\ slides' = [p \in PresentationIds |->
                  IF p = presentation_id THEN << >> ELSE slides[p]]
  /\ UNCHANGED << auxvars, exvars, agenda_template_id, brand, facility, logo_assets, games, config, origin, built, touched >>

\* lines 68-76: raise ValueError; the endpoint turns it into HTTP 400
BuildNotFound(w, presentation_id, cfg) ==
  /\ Begin(w, presentation_id, cfg)
  /\ get_presentation(presentation_id) = None \/ MissingData
  /\ pc' = [pc EXCEPT ![w] = "http400"]
  /\ UNCHANGED << auxvars, exvars, dbvars, built, touched >>

\* line 82 reads asset.facility_id, which Asset does not define, for the first
\* logo asset of the brand; line 293 compares None >= 1.  Both raise an error
\* that is not a ValueError: the request ends with HTTP 500.
BuildRaises(cfg) == logo_assets # {} \/ RaffleCount(cfg) = None

BuildCrash(w, presentation_id, cfg) ==
  /\ Begin(w, presentation_id, cfg)
  /\ get_presentation(presentation_id) # None /\ ~MissingData
  /\ BuildRaises(cfg)
  /\ pc' = [pc EXCEPT ![w] = "http500"]
  /\ UNCHANGED << auxvars, exvars, dbvars, built, touched >>

\* lines 68-108: the records are read and the slide list is generated
BuildGenerate(w, presentation_id, cfg) ==
  /\ Begin(w, presentation_id, cfg)
  /\ get_presentation(presentation_id) # None /\ ~MissingData
  /\ ~BuildRaises(cfg)
  /\ built' = [built EXCEPT ![w] =
        generate_av3_slides(brand[1], facility[1], None, IcebreakerGame(cfg),
                            ResolveGames(SelectedGameIds(cfg)),
                            RaffleCount(cfg)[1])]
  /\ pc' = [pc EXCEPT ![w] = "generated"]
  /\ UNCHANGED << auxvars, exvars, dbvars, touched >>

build_slides(w, presentation_id, cfg) ==
  \/ BuildNotFound(w, presentation_id, cfg)
  \/ BuildCrash(w, presentation_id, cfg)
  \/ BuildGenerate(w, presentation_id, cfg)

\* main.build_presentation_slides: the body is validated and dumped into the
\* config dict given to build_slides
build_presentation_slides(w, presentation_id, body) ==
  build_slides(w, presentation_id, model_dump(BuildSlidesRequest(body)))

\* line 111: crud.clear_presentation_slides, committed
BuildClear(w) ==
  /\ pc[w] = "generated"
  /\ delete_presentation_slides(req[w].presentation_id)
  /\ pc' = [pc EXCEPT ![w] = "cleared"]
  /\ UNCHANGED << auxvars, exvars, agenda_template_id, brand, facility, logo_assets, games, config, req, built, before, touched >>

\* line 112: crud.bulk_create_slides, committed
BuildInsert(w) ==
  /\ pc[w] = "cleared"
  /\ bulk_create_slides(req[w].presentation_id, built[w],
                        req[w].config)
  /\ pc' = [pc EXCEPT ![w] = "inserted"]
  /\ touched' = FALSE
  /\ UNCHANGED << auxvars, exvars, agenda_template_id, brand, facility, logo_assets, games, config, req, built, before >>

\* lines 115-116: presentation.config = config; db.commit()
BuildCommitConfig(w) ==
  /\ pc[w] = "inserted"
  /\ config' = [config EXCEPT ![req[w].presentation_id] = Some(req[w].config)]
  /\ pc' = [pc EXCEPT ![w] = "done"]
  /\ UNCHANGED << auxvars, exvars, agenda_template_id, brand, facility, logo_assets, games, slides, origin, req, built, before, touched >>

\* the call is interrupted between two commits (the process is stopped, the
\* database raises on the next statement): nothing uncommitted is kept
BuildFail(w) ==
  /\ pc[w] \in {"generated", "cleared", "inserted"}
  /\ pc' = [pc EXCEPT ![w] = "failed"]
  /\ UNCHANGED << auxvars, exvars, dbvars, req, built, before, touched >>

\* the response is sent and the thread serves the next request
Respond(w) ==
  /\ pc[w] \in {"done", "http400", "http500", "failed"}
  /\ pc' = [pc EXCEPT ![w] = "idle"]
  /\ req' = [req EXCEPT ![w] = NoReq]
  /\ built' = [built EXCEPT ![w] = << >>]
  /\ before' = [before EXCEPT ![w] = NoBefore]
  /\ UNCHANGED << auxvars, exvars, dbvars, touched >>

(***************************************************************************)
(* The other endpoints that write what build_slides reads or writes.       *)
(***************************************************************************)
\* crud.update_presentation with a config that is not None
update_presentation(presentation_id, cfg) ==
  /\ get_presentation(presentation_id) # None
  /\ config' = [config EXCEPT ![presentation_id] = Some(cfg)]
  /\ UNCHANGED << auxvars, exvars, agenda_template_id, brand, facility, logo_assets, games, slides, origin, pc, req, built, before, touched >>

\* crud.update_game setting is_active
update_game(game_id, is_active) ==
  /\ get_game(game_id) # None
  /\ games[game_id][1].is_active # is_active
  /\ games' = [games EXCEPT ![game_id] = Some([@[1] EXCEPT !.is_active = is_active])]
  /\ touched' = TRUE
  /\ UNCHANGED << auxvars, exvars, agenda_template_id, brand, facility, logo_assets, slides, config, origin, pc, req, built, before >>

\* crud.delete_game
delete_game(game_id) ==
  /\ get_game(game_id) # None
  /\ games' = [games EXCEPT ![game_id] = None]
  /\ touched' = TRUE
  /\ UNCHANGED << auxvars, exvars, agenda_template_id, brand, facility, logo_assets, slides, config, origin, pc, req, built, before >>

\* crud.delete_facility
delete_facility ==
  /\ facility # None
  /\ facility' = None
  /\ touched' = TRUE
  /\ UNCHANGED << auxvars, exvars, agenda_template_id, brand, logo_assets, games, slides, config, origin, pc, req, built, before >>

\* POST /api/facilities/{id}/logo: an assets row of type "facility_logo" is
\* stored and facility.logo_asset_id is set to its id
upload_facility_logo ==
  /\ facility # None
  /\ facility[1].logo_asset_id = None
  /\ facility' = Some([facility[1] EXCEPT !.logo_asset_id = Some(FacilityLogoAsset.id)])
  /\ touched' = TRUE
  /\ UNCHANGED << auxvars, exvars, agenda_template_id, brand, logo_assets, games, slides, config, origin, pc, req, built, before >>

\* POST /api/assets with asset_type "logo" for the brand
upload_asset ==
  /\ brand # None
  /\ logo_assets = {}
  /\ logo_assets' = {1}
  /\ UNCHANGED << auxvars, exvars, agenda_template_id, brand, facility, games, slides, config, origin, pc, req, built, before, touched >>

\* DELETE /api/assets/{id}
delete_asset ==
  /\ logo_assets # {}
  /\ logo_assets' = {}
  /\ UNCHANGED << auxvars, exvars, agenda_template_id, brand, facility, games, slides, config, origin, pc, req, built, before, touched >>

(***************************************************************************)
(* presentation_export.py: export_to_pptx with the AV3 template            *)
(***************************************************************************)
\* the template has 25 slides: slide 1 is the title, slide 25 the end
TEMPLATE_SLIDES == 25

\* ---------------------------------------------------------------------
\* Text substitution of the template export (presentation_export.py)
\* ---------------------------------------------------------------------
\* A text is a sequence of symbols. A symbol is one character, or a whole
\* word written as one string where no placeholder begins or ends inside it.

\* the most entries a content list (items, stats, regions) holds
MaxItems == 2

\* str() of a non-negative int: its decimal digits
Digits == << "0", "1", "2", "3", "4", "5", "6", "7", "8", "9" >>

RECURSIVE str(_)
str(n) == IF n < 10 THEN << Digits[n + 1] >> ELSE str(n \div 10) \o << Digits[(n % 10) + 1] >>

\* str.lower() of a brand name
lower(name) ==
  CASE name = "Cascadia" -> "cascadia"
    [] name = "Olympus" -> "olympus"
    [] OTHER -> name

\* old occurs in s at position i
StartsAt(s, old, i) ==
  /\ i + Len(old) - 1 <= Len(s)
  /\ \A k \in 1..Len(old) : s[i + k - 1] = old[k]

\* Python's `old in s` for a non-empty old
In(old, s) == \E i \in 1..Len(s) : StartsAt(s, old, i)

\* Python's s.replace(old, new): the non-overlapping occurrences of old,
\* found from the left, are replaced by new
RECURSIVE ReplaceFrom(_, _, _, _)
ReplaceFrom(s, old, new, i) ==
  IF i > Len(s) THEN << >>
  ELSE IF StartsAt(s, old, i) THEN new \o ReplaceFrom(s, old, new, i + Len(old))
  ELSE << s[i] >> \o ReplaceFrom(s, old, new, i + 1)

replace(s, old, new) == ReplaceFrom(s, old, new, 1)

\* a dict as the sequence of its << key, value >> items in insertion order;
\* d[key] = value keeps the position of a key the dict already holds
DictSetItem(d, key, value) ==
  IF \E k \in 1..Len(d) : d[k][1] = key
  THEN [k \in 1..Len(d) |-> IF d[k][1] = key THEN << key, value >> ELSE d[k]]
  ELSE Append(d, << key, value >>)

\* update_text_frame, lines 330-340, for one run: the replacements are applied
\* one after the other, in the order of the dict, each to the text the
\* previous ones left
\* (each intermediate text is drawn from a one-element set, which makes TLC
\* compute it once)
ReplaceItem(new_text, item) == IF In(item[1], new_text) THEN replace(new_text, item[1], item[2]) ELSE new_text

update_text_frame(text, replacements) ==
  LET new_text[k \in 0..Len(replacements)] ==
        IF k = 0 THEN text
        ELSE CHOOSE t \in {ReplaceItem(previous, replacements[k]) : previous \in {new_text[k - 1]}} : TRUE
  IN  new_text[Len(replacements)]

\* the placeholder strings of the template (update_template_slide)
template_dates == << << "March 2015" >>, << "October 2021" >>, << "December 2025" >> >>

template_values == << << "4", "8" >>, << "9" >>, << "1" >>, << "3", ",", "5", "0", "0" >>, << "4", ",", "0", "0", "0" >> >>

template_labels == << << "Skilled Nursing" >>, << "Senior Living ALF/ILF" >>, << "Home Health and Hospice" >>, << "Dedicated Employees" >>, << "Residents" >> >>

template_regions == << << "Columbia (OR, Western WA)" >>, << "Northern (Eastern WA, Northern ID, MT)" >>, << "3 Rivers (Central - ID)" >>, << "Envision (Southern - ID)" >>, << "Vincero (AZ)" >> >>

\* the id of the brand of the presentations, and the brand ids of content rows
BRAND_ID == 1

BrandIds == {1, 2}

\* crud.get_content: the rows of one brand
get_content(rows, brand_id) == SelectSeq(rows, LAMBDA r : r.brand_id = brand_id)

\* content_map of export_using_template, line 114: one item per content_key,
\* the last row with that key
content_map(content_items) ==
  [key \in {content_items[k].content_key : k \in 1..Len(content_items)} |->
     content_items[CHOOSE k \in 1..Len(content_items) : content_items[k].content_key = key /\ \A j \in (k + 1)..Len(content_items) : content_items[j].content_key # key]]

\* the list under `field` of the content document of row `key`, or the empty
\* list where update_template_slide skips the row (no row, a falsy document,
\* a document without the field)
ContentList(cmap, key, field) ==
  IF key \in DOMAIN cmap /\ field \in DOMAIN cmap[key].content
  THEN cmap[key].content[field]
  ELSE << >>

\* items[:n]
Head_n(list, n) == SubSeq(list, 1, IF Len(list) < n THEN Len(list) ELSE n)

\* item.get(key, default) on a dict whose values are Options of words
Get(item, key, default) == IF item[key] = None THEN default ELSE << item[key][1] >>

\* lines 211-219: the dates of the history slide
HistoryReplacements(replacements, items) ==
  LET r[i \in 0..Len(items)] ==
        IF i = 0 THEN replacements
        ELSE DictSetItem(r[i - 1], template_dates[i], Get(items[i], "year", template_dates[i]))
  IN  r[Len(items)]

\* lines 230-238: the values and labels of the footprint slide
FootprintReplacements(replacements, stats) ==
  LET r[i \in 0..Len(stats)] ==
        IF i = 0 THEN replacements
        ELSE DictSetItem(DictSetItem(r[i - 1], template_values[i], IF stats[i].value = None THEN template_values[i] ELSE str(stats[i].value[1])),
                         template_labels[i], Get(stats[i], "label", template_labels[i]))
  IN  r[Len(stats)]

\* lines 254-258: the name of a region
RegionName(region) ==
  (IF region.name = None THEN << >> ELSE << region.name[1] >>)
    \o (IF region.facilities # None /\ region.facilities[1] # 0
        THEN << " (" >> \o str(region.facilities[1]) \o << " facilities)" >>
        ELSE << >>)

\* lines 241-259: the names of the regions slide
RegionReplacements(replacements, region_list) ==
  LET r[i \in 0..Len(region_list)] ==
        IF i = 0 THEN replacements
        ELSE DictSetItem(r[i - 1], template_regions[i], RegionName(region_list[i]))
  IN  r[Len(region_list)]

\* update_template_slide, lines 205-259: the replacements of the slide at idx
Replacements(idx, b, cmap) ==
  LET brand_names == << << << "Cascadia" >>, << b.name >> >>, << << "cascadia" >>, << lower(b.name) >> >> >>
  IN  CASE idx = 4 -> HistoryReplacements(brand_names, Head_n(ContentList(cmap, "history", "items"), Len(template_dates)))
        [] idx = 5 -> FootprintReplacements(brand_names, Head_n(ContentList(cmap, "footprint", "stats"), Len(template_values)))
        [] idx = 6 -> RegionReplacements(brand_names, Head_n(ContentList(cmap, "regions", "regions"), Len(template_regions)))
        [] OTHER -> brand_names

\* the shapes of a slide: pictures and text boxes of one run each
Picture(image, left, top, width, height) ==
  [shape_type |-> "PICTURE", image |-> image, left |-> left, top |-> top,
   width |-> width, height |-> height]

TextBox(text) == [shape_type |-> "TEXT_BOX", text |-> text]

\* the picture shapes the title and end slides of a template can hold
PictureLayouts ==
  { << >>,
    << Picture("template_logo", 1, 1, 4, 2) >>,
    << Picture("template_art", 0, 0, 2, 2), Picture("template_logo", 1, 1, 4, 2) >>,
    << Picture("template_logo", 1, 1, 4, 2), Picture("template_art", 5, 1, 2, 4) >> }

\* the documents PptxPresentation(AV3_TEMPLATE) can load
Templates ==
  { [k \in 1..TEMPLATE_SLIDES |->
       IF k \in {1, TEMPLATE_SLIDES}
       THEN pics \o << TextBox(<< "Cascadia" >>) >>
       ELSE << TextBox(<< "The ", "Cascadia", " Family" >>), TextBox(<< "4", "8" >>), TextBox(<< "Culture Night" >>) >>] : pics \in PictureLayouts }

\* the path of the facility's logo file and the name of the temporary file
LOGO_FILE == "uploads/facility_1.png"
TMP_FILE == "/tmp/tmpmap.png"

\* crud.get_asset: the assets row upload_facility_logo stored
get_asset(asset_id) ==
  IF asset_id = FacilityLogoAsset.id THEN Some(FacilityLogoAsset) ELSE None

\* lines 71-79: the url of the assigned asset, which starts with /uploads/,
\* made relative to the backend directory
FacilityLogoPath(fac) ==
  IF fac.logo_asset_id # None /\ get_asset(fac.logo_asset_id[1]) # None
  THEN Some(LOGO_FILE)
  ELSE None

\* index of the first picture shape of the largest non-zero area, 0 if none
LargestPicture(shapes) ==
  LET pics == {k \in 1..Len(shapes) :
                 /\ shapes[k].shape_type = "PICTURE"
                 /\ shapes[k].width * shapes[k].height > 0}
      area(k) == shapes[k].width * shapes[k].height
  IN  IF pics = {} THEN 0
      ELSE CHOOSE k \in pics :
             \A j \in pics : area(j) < area(k) \/ (area(j) = area(k) /\ k <= j)

\* the shapes of a slide without the one at index k
RemoveShape(shapes, k) ==
  [j \in 1..(Len(shapes) - 1) |-> IF j < k THEN shapes[j] ELSE shapes[j + 1]]

\* replace_slide_logo: the largest picture is removed, then add_picture puts
\* the logo at its position and size; add_picture raising is caught
replace_slide_logo(shapes, logo_path, added) ==
  LET k == LargestPicture(shapes)
  IN  IF k = 0 THEN shapes
      ELSE LET old == shapes[k]
               rest == RemoveShape(shapes, k)
           IN  IF added
               THEN Append(rest, Picture(logo_path, old.left, old.top,
                                         old.width, old.height))
               ELSE rest

\* every text box is given the brand name
UpdateShape_Every(shape, replacements) == IF shape.shape_type = "TEXT_BOX" THEN TextBox(replacements[1][2]) ELSE shape

\* update_template_slide, lines 261-264: update_text_frame on every shape
\* that has a text frame
UpdateShape(shape, replacements) ==
  IF shape.shape_type = "TEXT_BOX"
  THEN TextBox(update_text_frame(shape.text, replacements))
  ELSE shape

\* export_to_pptx, lines 62-85: the records are read, the logo path is
\* derived and export_using_template loads the template (the template file
\* exists); an unknown presentation id raises ValueError
export_to_pptx(presentation_id) ==
  /\ epc = "idle"
  /\ brand # None /\ facility # None
  /\ IF get_presentation(presentation_id) = None
     THEN /\ epc' = "raised"
          /\ UNCHANGED << pptx, facility_logo_path >>
     ELSE /\ facility_logo_path' = FacilityLogoPath(facility[1])
          /\ pptx' = template
          /\ epc' = "logo"
  /\ slide_idx' = 0
  /\ UNCHANGED << auxvars, buildvars, template, files, image_data, tmp_path >>

\* the next position after the logo step of a slide
AfterLogo == IF slide_idx = 5 THEN "map" ELSE "text"

\* the test of line 121 without facility_logo_path.exists()
LogoApplies_IgnoresExists ==
  /\ facility_logo_path # None
  /\ (slide_idx = 0 \/ slide_idx = Len(pptx) - 1)

\* facility_logo_path and facility_logo_path.exists(), on slide 1 or the last
LogoApplies ==
  /\ facility_logo_path # None
  /\ facility_logo_path[1] \in files
  /\ (slide_idx = 0 \/ slide_idx = Len(pptx) - 1)

\* lines 121-123: on the first and the last slide, when the logo file exists,
\* replace_slide_logo; add_picture succeeds or raises on the file's content
ReplaceLogo ==
  /\ epc = "logo"
  /\ LogoApplies
  /\ \E added \in BOOLEAN :
        pptx' = [pptx EXCEPT ![slide_idx + 1] =
                   replace_slide_logo(@, facility_logo_path[1], added)]
  /\ epc' = AfterLogo
  /\ UNCHANGED << auxvars, buildvars, template, files, slide_idx, facility_logo_path, image_data, tmp_path >>

\* lines 121-122 false: the slide's pictures are not touched
KeepLogo ==
  /\ epc = "logo"
  /\ ~LogoApplies
  /\ epc' = AfterLogo
  /\ UNCHANGED << auxvars, buildvars, template, files, pptx, slide_idx, facility_logo_path, image_data, tmp_path >>

\* facilities_with_coords of add_footprint_map
FacilitiesWithCoordinates ==
  facility # None /\ facility[1].latitude # None /\ facility[1].longitude # None

\* lines 284-288: no facility has coordinates, the map is skipped
MapSkipped ==
  /\ epc = "map"
  /\ ~FacilitiesWithCoordinates
  /\ epc' = "text"
  /\ UNCHANGED << auxvars, buildvars, template, files, pptx, slide_idx, facility_logo_path, image_data, tmp_path >>

\* a fetch whose exception leaves add_footprint_map
MapFetch_Uncaught ==
  /\ epc = "map"
  /\ FacilitiesWithCoordinates
  /\ \/ /\ \E data \in {"png", "malformed"} : image_data' = Some(data)
        /\ epc' = "fetched"
     \/ /\ epc' = "raised"
        /\ UNCHANGED image_data
  /\ UNCHANGED << auxvars, buildvars, template, files, pptx, slide_idx, facility_logo_path, tmp_path >>

\* lines 300-302: urlopen(map_url, timeout=30) and response.read(); a
\* timeout, a network error or a non-2xx status raises and is caught at 321
MapFetch ==
  /\ epc = "map"
  /\ FacilitiesWithCoordinates
  /\ \/ /\ \E data \in {"png", "malformed"} : image_data' = Some(data)
        /\ epc' = "fetched"
     \/ /\ epc' = "text"
        /\ UNCHANGED image_data
  /\ UNCHANGED << auxvars, buildvars, template, files, pptx, slide_idx, facility_logo_path, tmp_path >>

\* line 305: NamedTemporaryFile(suffix='.png', delete=False) creates the file,
\* or raises OSError and creates nothing
MapCreateTmp ==
  /\ epc = "fetched"
  /\ \/ /\ files' = files \cup {TMP_FILE}
        /\ epc' = "created"
     \/ /\ epc' = "text"
        /\ UNCHANGED files
  /\ UNCHANGED << auxvars, buildvars, template, pptx, slide_idx, facility_logo_path, image_data, tmp_path >>

\* lines 306-307: the bytes are written and tmp_path is assigned; a failed
\* write leaves the with block by the exception caught at 321
MapWrite ==
  /\ epc = "created"
  /\ \/ /\ tmp_path' = Some(TMP_FILE)
        /\ epc' = "written"
     \/ /\ epc' = "text"
        /\ UNCHANGED tmp_path
  /\ UNCHANGED << auxvars, buildvars, template, files, pptx, slide_idx, facility_logo_path, image_data >>

\* line 316: add_picture(tmp_path, ...) adds the map picture, or raises on an
\* image it cannot read before any shape is added
MapAddPicture ==
  /\ epc = "written"
  /\ IF image_data = Some("png")
     THEN /\ pptx' = [pptx EXCEPT ![slide_idx + 1] =
                        Append(@, Picture(tmp_path[1], 65, 15, 63, 40))]
          /\ epc' = "added"
     ELSE /\ epc' = "text"
          /\ UNCHANGED pptx
  /\ UNCHANGED << auxvars, buildvars, template, files, slide_idx, facility_logo_path, image_data, tmp_path >>

\* line 319: os.unlink(tmp_path)
MapUnlink ==
  /\ epc = "added"
  /\ files' = files \ {tmp_path[1]}
  /\ epc' = "text"
  /\ UNCHANGED << auxvars, buildvars, template, pptx, slide_idx, facility_logo_path, image_data, tmp_path >>

\* lines 261-276 and 125-139: the text of the slide's shapes is updated; after
\* the last slide the document is saved and its bytes are returned
UpdateText ==
  /\ epc = "text"
  /\ \E replacements \in {Replacements(slide_idx, brand[1], content_map(get_content(reusable_content, BRAND_ID)))} :
        pptx' = [pptx EXCEPT ![slide_idx + 1] = [k \in 1..Len(@) |-> UpdateShape(@[k], replacements)]]
  /\ slide_idx' = slide_idx + 1
  /\ epc' = IF slide_idx + 1 = Len(pptx) THEN "returned" ELSE "logo"
  /\ UNCHANGED << auxvars, buildvars, template, files, facility_logo_path, image_data, tmp_path >>

(***************************************************************************)
(* Specifications.                                                         *)
(***************************************************************************)
\* no export is running: nothing loaded, no file on disk
NoExport ==
  /\ template = << >>
  /\ files = {}
  /\ pptx = << >>
  /\ epc = "idle"
  /\ slide_idx = 0
  /\ facility_logo_path = None
  /\ image_data = None
  /\ tmp_path = None

InitWorkers ==
  /\ pc = [w \in Workers |-> "idle"]
  /\ req = [w \in Workers |-> NoReq]
  /\ built = [w \in Workers |-> << >>]
  /\ before = [w \in Workers |-> NoBefore]

\* no content row, no export by a generated backend
NoAux ==
  /\ reusable_content = << >>
  /\ title = << >>
  /\ filename = None
  /\ read_slides = None
  /\ gen_pptx = None
  /\ gen_pdf = None
  /\ run = None
  /\ content_session = << >>

InitBuildAndExport ==
  /\ InitWorkers
  /\ NoExport
  /\ NoAux

InitPresentations ==
  /\ slides = [p \in PresentationIds |-> << >>]
  /\ config = [p \in PresentationIds |-> None]
  /\ origin = [p \in PresentationIds |-> << >>]
  /\ touched = FALSE

\* PresentationCreate.agenda_template_id is None unless the client names one
NoTemplate == agenda_template_id = [p \in PresentationIds |-> None]

\* a seeded database: the presentation was created for a brand id and a
\* facility id (neither is checked by create_presentation), no logo asset,
\* every game present and active
Init ==
  /\ brand \in {None, Some(Cascadia)}
  /\ facility \in Option(Facilities)
  /\ logo_assets = {}
  /\ games = [g \in AnyGameIds |-> IF g \in GameIds THEN Some(GameRow(g, TRUE)) ELSE None]
  /\ InitPresentations
  /\ NoTemplate
  /\ InitBuildAndExport

\* no build-slides request is being served
Quiet == \A w \in Workers : pc[w] = "idle"

Steps(w) ==
  \/ BuildClear(w)
  \/ BuildInsert(w)
  \/ BuildCommitConfig(w)
  \/ BuildFail(w)
  \/ Respond(w)

\* the requests are served one at a time
Next ==
  \/ \E p \in RequestPids, r \in Requests : build_slides(1, p, model_dump(r))
  \/ Steps(1)
  \/ Quiet /\ \E p \in RequestPids, c \in UpdateConfigs : update_presentation(p, c)
  \/ Quiet /\ \E g \in RequestGameIds, a \in BOOLEAN : update_game(g, a)
  \/ Quiet /\ \E g \in RequestGameIds : delete_game(g)
  \/ Quiet /\ delete_facility
  \/ Quiet /\ upload_asset
  \/ Quiet /\ delete_asset

Spec == Init /\ [][Next]_vars

\* one direct call of build_slides on any database and any config
InitGen ==
  /\ brand \in Option(Brands)
  /\ facility \in Option(Facilities)
  /\ logo_assets \in {{}, {1}}
  /\ games \in GameTables
  /\ InitPresentations
  /\ NoTemplate
  /\ InitBuildAndExport

NextGen ==
  /\ Quiet
  /\ \E p \in PresentationIds, c \in FullConfigs : build_slides(1, p, c)

SpecGen == InitGen /\ [][NextGen]_vars

\* two build-slides requests served by two threads of the pool
InitConc ==
  /\ brand = Some(Cascadia)
  /\ facility \in {Some(f) : f \in Facilities}
  /\ logo_assets = {}
  /\ games = [g \in AnyGameIds |-> IF g \in GameIds THEN Some(GameRow(g, TRUE)) ELSE None]
  /\ InitPresentations
  /\ NoTemplate
  /\ InitBuildAndExport

NextConc ==
  \/ \E w \in Workers, p \in RequestPids, r \in ConcurrentRequests :
        build_slides(w, p, model_dump(r))
  \/ \E w \in Workers : Steps(w)

SpecConc == InitConc /\ [][NextConc]_vars

\* build_slides and update_presentation calls, each running to its end
NextCalls ==
  \/ \E p \in RequestPids, r \in Requests : build_slides(1, p, model_dump(r))
  \/ BuildClear(1)
  \/ BuildInsert(1)
  \/ BuildCommitConfig(1)
  \/ Respond(1)
  \/ Quiet /\ \E p \in RequestPids, c \in UpdateConfigs : update_presentation(p, c)

SpecCalls == InitConc /\ [][NextCalls]_vars

\* one request to the build-slides endpoint, with any body, for a presentation
\* created with or without an agenda template
InitEndpoint ==
  /\ brand \in {Some(b) : b \in Brands}
  /\ facility \in {Some(f) : f \in Facilities}
  /\ logo_assets = {}
  /\ games = [g \in AnyGameIds |-> IF g \in GameIds THEN Some(GameRow(g, TRUE)) ELSE None]
  /\ agenda_template_id \in [PresentationIds -> Option(AnyTemplateIds)]
  /\ InitPresentations
  /\ InitBuildAndExport

NextEndpoint ==
  \/ \E p \in RequestPids, body \in Bodies : build_presentation_slides(1, p, body)
  \/ BuildClear(1)
  \/ BuildInsert(1)
  \/ BuildCommitConfig(1)
  \/ Quiet /\ upload_facility_logo
  \/ Quiet /\ upload_asset

SpecEndpoint == InitEndpoint /\ [][NextEndpoint]_vars

\* one call of export_to_pptx, on any template, with or without an assigned
\* logo, with or without the logo file, with or without coordinates
\* the content rows of the brand at an export: none, or a footprint row
ExportContents ==
  { << >>,
    << [brand_id |-> BRAND_ID, content_key |-> "footprint", title |-> "Our Growing Footprint",
        content |-> [stats |-> << [value |-> Some(75), label |-> Some("Facilities")] >>], version |-> 1] >> }

InitExport ==
  /\ brand \in {Some(b) : b \in Brands}
  /\ \E f \in Facilities \cup FacilitiesWithCoords, logo \in Option({FacilityLogoAsset.id}) :
        facility = Some([f EXCEPT !.logo_asset_id = logo])
  /\ logo_assets = {}
  /\ games = [g \in AnyGameIds |-> IF g \in GameIds THEN Some(GameRow(g, TRUE)) ELSE None]
  /\ InitPresentations
  /\ NoTemplate
  /\ InitWorkers
  /\ reusable_content \in ExportContents
  /\ title = << >>
  /\ filename = None
  /\ read_slides = None
  /\ gen_pptx = None
  /\ gen_pdf = None
  /\ run = None
  /\ content_session = << >>
  /\ template \in Templates
  /\ files \in SUBSET {LOGO_FILE}
  /\ pptx = << >>
  /\ epc = "idle"
  /\ slide_idx = 0
  /\ facility_logo_path = None
  /\ image_data = None
  /\ tmp_path = None

NextExport ==
  \/ \E p \in RequestPids : export_to_pptx(p)
  \/ ReplaceLogo
  \/ KeepLogo
  \/ MapSkipped
  \/ MapFetch
  \/ MapCreateTmp
  \/ MapWrite
  \/ MapAddPicture
  \/ MapUnlink
  \/ UpdateText

SpecExport == InitExport /\ [][NextExport]_vars

(***************************************************************************)
(* Properties.                                                             *)
(***************************************************************************)
\* positions of a call at which the list `slides` of build_slides exists
HasBuilt(w) == pc[w] \in {"generated", "cleared", "inserted", "done", "failed"}

\* order values are 0..n-1 in list order
Dense(slide_list) == \A k \in 1..Len(slide_list) : slide_list[k].order = k - 1

\* the slides of one type, in list order
OfType(slide_list, slide_type) ==
  SelectSeq(slide_list, LAMBDA sl : sl.slide_type = slide_type)

\* positions of the slides of one type
Positions(slide_list, slide_type) ==
  {k \in 1..Len(slide_list) : slide_list[k].slide_type = slide_type}

\* C1: the slides build_slides returns, and the rows it has stored once the
\* insert is committed, carry the order values 0..n-1, each once, in list order.
C1_OrdersContiguous ==
  \A w \in Workers :
    /\ HasBuilt(w) => Dense(built[w])
    /\ pc[w] \in {"inserted", "done"} => Dense(slides[req[w].presentation_id])

\* C2: a build_slides call that failed after it started left either the
\* complete old slide set or the complete new one.
C2_FailureLeavesOldOrNew ==
  \A w \in Workers :
    pc[w] = "failed" =>
      \/ slides[req[w].presentation_id] = before[w].slides
      \/ slides[req[w].presentation_id] = SlideRows(built[w])

\* C3: when two build_slides calls on the same presentation have both
\* finished, the stored rows are the output of exactly one of them.
C3_ConcurrentBuildsLeaveOneOutput ==
  ( /\ pc[1] = "done" /\ pc[2] = "done"
    /\ req[1].presentation_id = req[2].presentation_id )
  => \/ slides[req[1].presentation_id] = SlideRows(built[1])
     \/ slides[req[1].presentation_id] = SlideRows(built[2])

\* C4: between calls, the stored config of a presentation is the config its
\* stored slides were generated from.
C4_ConfigIsSnapshotOfSlides ==
  Quiet =>
    \A p \in PresentationIds :
      \A k \in 1..Len(origin[p]) : config[p] = Some(origin[p][k])

\* the stored rows were inserted by one call that had the config of call w,
\* and no brand, facility or game row was written between the two calls
RepeatsLastBuild(w) ==
  /\ before[w].origin = << req[w].config >>
  /\ ~before[w].touched

\* C5: a build_slides call that follows one with the same config, the records
\* unchanged in between, returns the same slide_type sequence and stores the
\* same rows.
C5_RebuildIsDeterministic ==
  \A w \in Workers :
    (pc[w] \in {"inserted", "done"} /\ RepeatsLastBuild(w)) =>
      /\ slides[req[w].presentation_id] = before[w].slides
      /\ SlideTypes(built[w]) = SlideTypes(before[w].slides)

C5_Witness ==
  \E w \in Workers :
    /\ pc[w] = "done" /\ RepeatsLastBuild(w)
    /\ Len(before[w].slides) > 0
    /\ slides[req[w].presentation_id] = before[w].slides

Min(a, b) == IF a < b THEN a ELSE b
Max(a, b) == IF a > b THEN a ELSE b

\* number of raffle positions of the AV3 template
RafflePositions == Cardinality(Positions(
  [k \in 1..Len(AV3_SLIDE_TYPES) |-> [slide_type |-> AV3_SLIDE_TYPES[k]]],
  "RaffleBumper"))

\* C6: a build has min(max(raffle_count, 0), number of raffle positions)
\* RaffleBumper slides, each after FieldIntro and before EndSlide, no two in
\* a row, with raffle_number strictly ascending in slide order.
C6_RaffleCount ==
  \A w \in Workers :
    pc[w] = "generated" =>
      LET rc == RaffleCount(req[w].config)[1]
          raffles == Positions(built[w], "RaffleBumper")
      IN  /\ Cardinality(raffles) = Min(Max(rc, 0), RafflePositions)
          /\ \A k \in raffles :
                /\ \E a \in 1..(k - 1) : built[w][a].slide_type = "FieldIntro"
                /\ \E b \in (k + 1)..Len(built[w]) :
                      built[w][b].slide_type = "EndSlide"
                /\ (k + 1) \notin raffles
          /\ \A k1, k2 \in raffles :
                k1 < k2 => built[w][k1].payload.raffle_number
                             < built[w][k2].payload.raffle_number

C6_Witness ==
  \E w \in Workers :
    /\ pc[w] = "generated"
    /\ RaffleCount(req[w].config) = Some(MaxRaffle)
    /\ MaxRaffle > RafflePositions
    /\ Cardinality(Positions(built[w], "RaffleBumper")) = RafflePositions

\* the ids of selected_game_ids that name a row of the games table, in the
\* supplied order
ResolvableIds(cfg) ==
  SelectSeq(SelectedGameIds(cfg),
            LAMBDA g : g \in DOMAIN games /\ games[g] # None)

\* C7: with k < 5 games resolved, challenge slides 1..k carry the supplied
\* games in the supplied order and every slot k+1..5 carries that slot's
\* default challenge; none of the 5 challenge slides is omitted.
C7_DefaultsFillRemainingSlots ==
  \A w \in Workers :
    pc[w] = "generated" =>
      LET ids == ResolvableIds(req[w].config)
          ch == OfType(built[w], "ChallengeGame")
      IN  Len(ids) < Len(DEFAULT_CHALLENGES) =>
            /\ Len(ch) = Len(DEFAULT_CHALLENGES)
            /\ \A j \in 1..Len(ch) :
                  /\ ch[j].payload.challenge_number = j
                  /\ IF j <= Len(ids)
                     THEN /\ ch[j].payload.game_title = games[ids[j]][1].title
                          /\ ch[j].payload.rules = games[ids[j]][1].rules
                     ELSE /\ ch[j].payload.game_title = DEFAULT_CHALLENGES[j].title
                          /\ ch[j].payload.rules = DEFAULT_CHALLENGES[j].rules

C7_Witness ==
  \E w \in Workers :
    /\ pc[w] = "generated"
    /\ Len(ResolvableIds(req[w].config)) = 2
    /\ OfType(built[w], "ChallengeGame")[2].payload.game_title
         = games[ResolvableIds(req[w].config)[2]][1].title
    /\ OfType(built[w], "ChallengeGame")[3].payload.game_title
         = DEFAULT_CHALLENGES[3].title

\* the build of the same call with no game selected
WithoutSelection(w) ==
  generate_av3_slides(brand[1], facility[1], None,
                      IcebreakerGame(req[w].config), << >>,
                      RaffleCount(req[w].config)[1])

C9_InactiveGameNeverBound ==
  \A w \in Workers :
    pc[w] = "generated" =>
      \A k \in 1..Len(built[w]) :
        built[w][k].slide_type \in {"ChallengeGame", "IcebreakerGame"} =>
          \A g \in GameIds :
            (games[g] # None /\ ~games[g][1].is_active) =>
              built[w][k].payload.game_title # games[g][1].title

\* C10: a build_slides call on a presentation id that does not exist, or
\* whose brand or facility row is absent, ends with the error response and
\* changes no stored slide and no stored config.
C10_NotFoundChangesNothing ==
  [][ \A w \in Workers :
        ( /\ pc[w] = "idle" /\ pc'[w] # "idle"
          /\ \/ req'[w].presentation_id \notin PresentationIds
             \/ brand = None
             \/ facility = None )
        => (pc'[w] = "http400" /\ slides' = slides /\ config' = config) ]_vars

C10_Witness ==
  \E w \in Workers :
    /\ pc[w] = "http400"
    /\ req[w].presentation_id \in PresentationIds
    /\ facility = None
    /\ Len(slides[req[w].presentation_id]) > 0
    /\ config[req[w].presentation_id] # None

\* the request of worker w was refused: the endpoint answered with an error
Rejected(w) == pc[w] \in {"http400", "http500"}

\* the stored rows and config of the presentation are those of the moment
\* the call of worker w started
Unwritten(w) ==
  \A p \in PresentationIds :
    p = req[w].presentation_id =>
      /\ slides[p] = before[w].slides
      /\ origin[p] = before[w].origin

\* raffle_count is null or a negative integer
Malformed(cfg) ==
  RaffleCount(cfg) = None \/ RaffleCount(cfg)[1] < 0

\* C11: a request whose raffle_count is negative or not an integer is
\* refused with an error, and no stored slide or config is written for it.
C11_MalformedRejected ==
  \A w \in Workers :
    (pc[w] # "idle" /\ Malformed(req[w].config)) =>
      Rejected(w) /\ Unwritten(w)

\* the presentation has no agenda template: the column is null or names no row
NoAgendaTemplate(p) ==
  \/ agenda_template_id[p] = None
  \/ agenda_template_id[p][1] \notin AgendaTemplateIds

\* C12: build_slides on a presentation without an agenda template fails with
\* an error and creates no slide.
C12_NoTemplateFails ==
  \A w \in Workers :
    (pc[w] # "idle" /\ req[w].presentation_id \in PresentationIds
       /\ NoAgendaTemplate(req[w].presentation_id)) =>
      /\ Rejected(w)
      /\ built[w] = << >>
      /\ slides[req[w].presentation_id] = << >>

\* the slide types of the content block of each content_key
ContentBlock(key) ==
  CASE key = "history" -> {"HistoryIntro", "HistoryTimeline"}
    [] key = "footprint" -> {"FootprintStats"}
    [] key = "regions" -> {"RegionsMap"}
    [] key = "culture" -> {"CultureIntro", "CultureComparison"}

\* config["include_<key>"], True when the key is absent
Include(cfg, key) == DictGet(cfg, "include_" \o key, Some(TRUE)) = Some(TRUE)

\* C13: when include_<key> is false, or the brand has no ReusableContent row
\* for the key, the build has no slide of that content block, and it still
\* has its title and end slides.
C13_DisabledBlocksSkipped ==
  \A w \in Workers :
    pc[w] = "generated" =>
      /\ \A key \in CONTENT_KEYS :
            (~Include(req[w].config, key) \/ key \notin brand[1].content) =>
              \A k \in 1..Len(built[w]) :
                built[w][k].slide_type \notin ContentBlock(key)
      /\ Positions(built[w], "TitleSlide") # {}
      /\ Positions(built[w], "EndSlide") # {}

\* C14: for a presentation whose agenda template is the slot list Welcome,
\* History, Footprint, Regions, Culture, Closing, a build with raffle_count 0
\* and no game selected yields exactly the 6 slides of those types in that
\* order, with no raffle and no challenge slide.
C14_FollowsAgendaTemplate ==
  \A w \in Workers :
    LET p == req[w].presentation_id
    IN  (/\ pc[w] = "generated"
         /\ ~NoAgendaTemplate(p)
         /\ RaffleCount(req[w].config) = Some(0)
         /\ SelectedGameIds(req[w].config) = << >>) =>
          /\ SlideTypes(built[w]) = agenda_templates[agenda_template_id[p][1]].slide_order
          /\ Len(built[w]) = 6
          /\ Positions(built[w], "RaffleBumper") = {}
          /\ Positions(built[w], "ChallengeGame") = {}

\* the request bodies the endpoint turns into the call of worker w
BodiesOf(w) ==
  {body \in Bodies : model_dump(BuildSlidesRequest(body)) = req[w].config}

\* C15: a build requested through the endpoint has exactly one IcebreakerGame
\* slide; it carries the title and rules of the game the body names with
\* icebreaker_game_id when that game exists, and Musical Chairs otherwise.
C15_IcebreakerFromRequest ==
  \A w \in Workers :
    pc[w] = "generated" =>
      LET ib == OfType(built[w], "IcebreakerGame")
      IN  /\ Len(ib) = 1
          /\ \A body \in BodiesOf(w) :
                LET gid == body.icebreaker_game_id
                IN  IF gid # None /\ get_game(gid[1]) # None
                    THEN /\ ib[1].payload.game_title = get_game(gid[1])[1].title
                         /\ ib[1].payload.rules = get_game(gid[1])[1].rules
                    ELSE ib[1].payload.game_title = "Musical Chairs"

\* C16: every slide payload of a build, whatever the slide type, holds the
\* brand's resolved primary_color (#0b7280 when the brand has none) and no
\* payload holds a brand id.
C16_PayloadsCarryTheme ==
  \A w \in Workers :
    pc[w] = "generated" =>
      \A k \in 1..Len(built[w]) :
        LET payload == built[w][k].payload
        IN  /\ "primary_color" \in DOMAIN payload
            /\ payload["primary_color"] = PrimaryColor(brand[1])
            /\ "brand_id" \notin DOMAIN payload

\* the logo the title and end slides are to show: the facility's assigned
\* logo when facility.logo_asset_id is set, the brand's logo otherwise
ExpectedLogoUrl ==
  IF facility[1].logo_asset_id = Some(FacilityLogoAsset.id)
  THEN Some(FacilityLogoAsset.url)
  ELSE brand[1].logo_url

\* C17: a build of an existing presentation with a well-formed raffle_count
\* completes whatever logo assets the brand has, and its TitleSlide and
\* EndSlide carry the same logo_url: the facility's assigned logo when it has
\* one, the brand's logo_url otherwise.
C17_FacilityLogoOverridesBrand ==
  \A w \in Workers :
    (/\ pc[w] # "idle"
     /\ req[w].presentation_id \in PresentationIds
     /\ RaffleCount(req[w].config) # None) =>
      /\ pc[w] # "http500"
      /\ pc[w] = "generated" =>
            /\ OfType(built[w], "TitleSlide")[1].payload.logo_url = ExpectedLogoUrl
            /\ OfType(built[w], "EndSlide")[1].payload.logo_url = ExpectedLogoUrl

\* the picture shapes of a slide, in z-order
Pictures(shapes) == SelectSeq(shapes, LAMBDA sh : sh.shape_type = "PICTURE")

\* the facility has no assigned logo, or the logo file is not on disk
NoUsableLogo == facility[1].logo_asset_id = None \/ LOGO_FILE \notin files

\* C18: when the facility has no assigned logo, or the logo file does not
\* exist, the template export raises no error and the picture shapes of the
\* first and the last template slide stay those of the template at every
\* point of the export.
C18_NoLogoKeepsPictures ==
  (pptx # << >> /\ NoUsableLogo) =>
    /\ epc # "raised"
    /\ Pictures(pptx[1]) = Pictures(template[1])
    /\ Pictures(pptx[Len(pptx)]) = Pictures(template[Len(template)])

C18_Witness ==
  /\ epc = "returned"
  /\ facility[1].logo_asset_id # None
  /\ LOGO_FILE \notin files
  /\ Len(Pictures(template[1])) = 2
  /\ Pictures(pptx[Len(pptx)]) = Pictures(template[Len(template)])

\* add_footprint_map was left for the statistics slide (index 5), by a
\* return or by an exception
MapDone == slide_idx > 5 \/ (slide_idx = 5 /\ epc \in {"text", "raised"})

\* the map step ran to its end: a readable image was fetched, written and added
MapSucceeded == image_data = Some("png") /\ tmp_path # None

\* the map step was started and failed
MapFailed == MapDone /\ FacilitiesWithCoordinates /\ ~MapSucceeded

\* C19: after any failure of the map step (fetch, temporary file, malformed
\* image) no exception has reached the caller, the statistics slide has no
\* map picture, and the export goes on until it returns the document.
C19_MapFailureIsCaught ==
  MapFailed =>
    /\ epc # "raised"
    /\ Pictures(pptx[6]) = Pictures(template[6])
    /\ epc = "returned" \/ ENABLED NextExport

C19_Witness ==
  /\ epc = "returned"
  /\ MapFailed
  /\ image_data = Some("malformed")
  /\ tmp_path # None

\* C20: once add_footprint_map has returned, by whatever path, the temporary
\* file it created is no longer on disk.
C20_TempFileDeleted ==
  MapDone => TMP_FILE \notin files

\* the lists of at most n elements of S
Lists(S, n) == UNION {[1..k -> S] : k \in 0..n}

\* the content documents a row of the key can hold; the empty dict is falsy
ContentDocuments(key) ==
  {EmptyDict} \cup
  CASE key = "history" -> {[items |-> l] : l \in Lists([year : Option({"1995", "October 2021"})], MaxItems)}
    [] key = "footprint" -> {[stats |-> l] : l \in Lists([value : Option({7, 19}), label : Option({"Facilities", "Senior Living ALF/ILF"})], MaxItems)}
    [] key = "regions" -> {[regions |-> l] : l \in Lists([name : Option({"Pacific Northwest", "Northern (Eastern WA, Northern ID, MT)"}), facilities : Option({35})], MaxItems)}

\* a reusable_content row (models.ReusableContent); its id is its position
ContentRow(brand_id, content_key, content) == [brand_id |-> brand_id, content_key |-> content_key, title |-> "Our " \o content_key, content |-> content, version |-> 1]

\* the text runs of the history, footprint and regions slides of the template
RunTexts ==
  { << "The ", "Cascadia", " Family" >>, << "March 2015" >>, << "October 2021" >>,
    << "4", "8" >>, << "9" >>, << "1" >>, << "4", "8", " ", "Skilled Nursing" >>, << "Senior Living ALF/ILF" >>,
    << "Columbia (OR, Western WA)" >>, << "Northern (Eastern WA, Northern ID, MT)" >> }

\* one run of one of the three slides, and at most one content row of the brand
InitText ==
  /\ brand \in {Some(b) : b \in Brands}
  /\ facility \in {Some(f) : f \in Facilities}
  /\ logo_assets = {}
  /\ games = [g \in AnyGameIds |-> IF g \in GameIds THEN Some(GameRow(g, TRUE)) ELSE None]
  /\ InitPresentations
  /\ NoTemplate
  /\ InitWorkers
  /\ NoExport
  /\ title = << >>
  /\ filename = None
  /\ read_slides = None
  /\ gen_pptx = None
  /\ gen_pdf = None
  /\ content_session = << >>
  /\ reusable_content \in {<< >>} \cup UNION {{<< ContentRow(BRAND_ID, key, doc) >> : doc \in ContentDocuments(key)} : key \in {"history", "footprint", "regions"}}
  /\ \E idx \in 4..6, text \in RunTexts : run = Some([slide_idx |-> idx, original_text |-> text, text |-> None])

\* update_template_slide on the slide of the run: the replacements are built
\* from the brand and its content rows and update_text_frame rewrites the run
UpdateRun ==
  /\ run # None
  /\ run[1].text = None
  /\ run' = Some([run[1] EXCEPT !.text = Some(update_text_frame(run[1].original_text, Replacements(run[1].slide_idx, brand[1], content_map(get_content(reusable_content, BRAND_ID)))))])
  /\ UNCHANGED << buildvars, exvars, reusable_content, title, filename, read_slides, gen_pptx, gen_pdf, content_session >>

NextText == UpdateRun

SpecText == InitText /\ [][NextText]_vars

\* every placeholder of the map replaced at once: at each position of the
\* original text the placeholder that starts there gives way to its value
RECURSIVE SimultaneousFrom(_, _, _)
SimultaneousFrom(text, replacements, i) ==
  IF i > Len(text) THEN << >>
  ELSE IF \E k \in 1..Len(replacements) : StartsAt(text, replacements[k][1], i)
  THEN LET k == CHOOSE k \in 1..Len(replacements) : StartsAt(text, replacements[k][1], i)
       IN  replacements[k][2] \o SimultaneousFrom(text, replacements, i + Len(replacements[k][1]))
  ELSE << text[i] >> \o SimultaneousFrom(text, replacements, i + 1)

RunReplacements == Replacements(run[1].slide_idx, brand[1], content_map(get_content(reusable_content, BRAND_ID)))

\* C21: the text of a run after update_text_frame is the simultaneous
\* replacement of every placeholder of the slide by its positional value; a
\* value put in for one placeholder is not rewritten by another replacement
C21_SimultaneousReplacement ==
  (run # None /\ run[1].text # None) =>
     run[1].text[1] = SimultaneousFrom(run[1].original_text, RunReplacements, 1)

\* ---------------------------------------------------------------------
\* The generated backends: the PPTX fallback and the PDF export
\* ---------------------------------------------------------------------
\* crud.get_presentation_slides: the rows of the presentation, order_by(order).
\* The database does not fix the order of rows with equal order values:
\* `ties` tells whether they come in insertion order or in the reverse of it.
Rank(rows, k, ties) ==
  1 + Cardinality({j \in 1..Len(rows) :
        \/ rows[j].order < rows[k].order
        \/ rows[j].order = rows[k].order /\ (IF ties THEN j < k ELSE j > k)})

\* the rows are returned in descending order
SortedRows_Descending(rows, ties) == [i \in 1..Len(rows) |-> rows[CHOOSE k \in 1..Len(rows) : Rank(rows, k, ties) = Len(rows) + 1 - i]]

SortedRows(rows, ties) == [i \in 1..Len(rows) |-> rows[CHOOSE k \in 1..Len(rows) : Rank(rows, k, ties) = i]]

get_presentation_slides(presentation_id) == {SortedRows(slides[presentation_id], ties) : ties \in BOOLEAN}

\* slide_type.replace("Block", "")
StripBlock(slide_type) ==
  CASE slide_type = "HistoryBlock" -> "History"
    [] slide_type = "FootprintBlock" -> "Footprint"
    [] slide_type = "RegionsBlock" -> "Regions"
    [] slide_type = "CultureBlock" -> "Culture"
    [] OTHER -> slide_type

\* an emitted slide or page: the recipe that drew it and its title text
Emitted(layout, text) == [layout |-> layout, title |-> text]

\* add_slide_to_pptx, lines 394-419, with the title each create_*_pptx_slide writes
add_slide_to_pptx(slide_data, b) ==
  LET slide_type == slide_data.slide_type
      payload == slide_data.payload
  IN  CASE slide_type = "WelcomeIntro" -> Emitted("welcome", "Welcome to " \o b.name)
        [] slide_type = "RaffleBumper" -> Emitted("raffle", DictGet(payload, "title", "RAFFLE TIME!"))
        [] slide_type = "HistoryBlock" -> Emitted("content", DictGet(payload, "title", "Our History"))
        [] slide_type = "FootprintBlock" -> Emitted("content", DictGet(payload, "title", "Our Growing Footprint"))
        [] slide_type = "RegionsBlock" -> Emitted("content", DictGet(payload, "title", "Our Regions"))
        [] slide_type = "CultureBlock" -> Emitted("culture", DictGet(payload, "title", "The " \o b.name \o " Way"))
        [] slide_type = "GameSlide" -> Emitted("game", DictGet(payload, "title", "Game Time!"))
        [] slide_type = "PillarsClosing" -> Emitted("pillars", "Our 3 Pillars")
        [] OTHER -> Emitted("generic", slide_type)

\* add_slide_to_pdf, lines 806-892
add_slide_to_pdf(slide_data, b) ==
  LET slide_type == slide_data.slide_type
      payload == slide_data.payload
  IN  CASE slide_type = "WelcomeIntro" -> Emitted("welcome", "Welcome to " \o b.name)
        [] slide_type = "RaffleBumper" -> Emitted("raffle", DictGet(payload, "title", "RAFFLE TIME!"))
        [] slide_type = "GameSlide" -> Emitted("game", DictGet(payload, "title", "Game Time!"))
        [] slide_type = "PillarsClosing" -> Emitted("pillars", "Our 3 Pillars")
        [] OTHER -> Emitted("generic", DictGet(payload, "title", StripBlock(slide_type)))

\* the outcome of an export by a generated backend: the rows it read and the
\* slides or pages it emitted for them, or the ValueError of a missing presentation
Exported(rows, pages) == [status |-> "ok", rows |-> rows, pages |-> pages]

ExportRaised == [status |-> "ValueError", rows |-> << >>, pages |-> << >>]

\* export_to_pptx where the template file does not exist: export_generated_slides
\* adds one slide for each row of the list it is given
export_generated_slides(presentation_id) ==
  /\ gen_pptx = None
  /\ brand # None /\ facility # None
  /\ IF get_presentation(presentation_id) = None
     THEN gen_pptx' = Some(ExportRaised)
     ELSE \E rows \in get_presentation_slides(presentation_id) :
            gen_pptx' = Some(Exported(rows, [k \in 1..Len(rows) |-> add_slide_to_pptx(rows[k], brand[1])]))
  /\ UNCHANGED << buildvars, exvars, reusable_content, title, filename, read_slides, gen_pdf, run, content_session >>

\* export_to_pdf, lines 762-782: one add_slide_to_pdf and one showPage for each row
export_to_pdf(presentation_id) ==
  /\ gen_pdf = None
  /\ brand # None /\ facility # None
  /\ IF get_presentation(presentation_id) = None
     THEN gen_pdf' = Some(ExportRaised)
     ELSE \E rows \in get_presentation_slides(presentation_id) :
            gen_pdf' = Some(Exported(rows, [k \in 1..Len(rows) |-> add_slide_to_pdf(rows[k], brand[1])]))
  /\ UNCHANGED << buildvars, exvars, reusable_content, title, filename, read_slides, gen_pptx, run, content_session >>

\* main.get_present_data, lines 462-468: the slides are read with one query
get_present_data(presentation_id) ==
  /\ read_slides = None
  /\ brand # None /\ facility # None
  /\ get_presentation(presentation_id) # None
  /\ \E rows \in get_presentation_slides(presentation_id) : read_slides' = Some(rows)
  /\ UNCHANGED << buildvars, exvars, reusable_content, title, filename, gen_pptx, gen_pdf, run, content_session >>

\* the configs of the builds that precede an export
BackendConfigs == [raffle_count : RaffleCounts(0, 2), selected_game_ids : {Some(<< 1 >>)}, icebreaker_game_id : {None}]

InitBackends ==
  /\ brand \in {Some(b) : b \in Brands}
  /\ facility \in {Some(f) : f \in Facilities}
  /\ logo_assets = {}
  /\ games = [g \in AnyGameIds |-> IF g \in GameIds THEN Some(GameRow(g, TRUE)) ELSE None]
  /\ InitPresentations
  /\ NoTemplate
  /\ InitBuildAndExport

\* builds of the presentation, step by step, and the reads and exports that
\* other requests make at any moment
NextBackends ==
  \/ \E p \in RequestPids, c \in BackendConfigs : build_slides(1, p, c)
  \/ BuildClear(1)
  \/ BuildInsert(1)
  \/ BuildCommitConfig(1)
  \/ Respond(1)
  \/ \E p \in RequestPids : export_generated_slides(p)
  \/ \E p \in RequestPids : export_to_pdf(p)
  \/ \E p \in RequestPids : get_present_data(p)

SpecBackends == InitBackends /\ [][NextBackends]_vars

\* C22: for every slide the PPTX fallback emitted, the PDF emitter treats the
\* slide's type the same way (dedicated recipe or generic layout in both) and
\* renders the same title text
C22_BackendsAgree ==
  (gen_pptx # None /\ gen_pdf # None) =>
     \A k \in 1..Len(gen_pptx[1].rows), j \in 1..Len(gen_pdf[1].rows) :
        gen_pptx[1].rows[k] = gen_pdf[1].rows[j] =>
           /\ (gen_pptx[1].pages[k].layout = "generic") <=> (gen_pdf[1].pages[j].layout = "generic")
           /\ gen_pptx[1].pages[k].title = gen_pdf[1].pages[j].title

\* ---------------------------------------------------------------------
\* get_export_filename (presentation_export.py, lines 895-900)
\* ---------------------------------------------------------------------
\* A title is a sequence of characters.

\* safe_title[:50]
SAFE_TITLE_LENGTH == 50

\* the most characters before and after the padding of a title
MaxAffix == 2

\* the characters of the titles: c.isalnum() holds for the first set only
AlnumChars == {"a", "Z", "7", "x"}

OtherChars == {" ", "-", "_", "/"}

isalnum(c) == c \in AlnumChars

\* n times the character c
Repeat(c, n) == [k \in 1..n |-> c]

\* the titles a presentation can have: a few characters, a run of "x" that
\* brings the title near or past the length limit, a few characters
Titles ==
  {pre \o Repeat("x", n) \o post :
     pre \in Lists(AlnumChars \cup OtherChars, MaxAffix),
     n \in {0, SAFE_TITLE_LENGTH - MaxAffix, SAFE_TITLE_LENGTH},
     post \in Lists({" ", "a", "/"}, MaxAffix - 1)}

\* "".join(c for c in title if c.isalnum() or c in (' ', '-', '_'))
Kept(c) == isalnum(c) \/ c \in {" ", "-", "_"}

join(t) == SelectSeq(t, Kept)

\* str.strip(): the spaces at both ends are dropped
strip(t) ==
  LET inner == {k \in 1..Len(t) : t[k] # " "}
  IN  IF inner = {} THEN << >>
      ELSE SubSeq(t, CHOOSE k \in inner : \A j \in inner : k <= j, CHOOSE k \in inner : \A j \in inner : k >= j)

\* the name is not cut at the length limit
get_export_filename_Uncut(t, extension) == [safe_title |-> replace(strip(join(t)), << " " >>, << "_" >>), timestamp |-> "YYYYmmdd_HHMMSS", extension |-> extension]

\* get_export_filename: the three parts of the returned name
get_export_filename(t, extension) ==
  LET safe_title == strip(join(t))
  IN  [safe_title |-> Head_n(replace(safe_title, << " " >>, << "_" >>), SAFE_TITLE_LENGTH),
       timestamp |-> "YYYYmmdd_HHMMSS",
       extension |-> extension]

InitFilename ==
  /\ brand \in {Some(b) : b \in Brands}
  /\ facility \in {Some(f) : f \in Facilities}
  /\ logo_assets = {}
  /\ games = [g \in AnyGameIds |-> IF g \in GameIds THEN Some(GameRow(g, TRUE)) ELSE None]
  /\ InitPresentations
  /\ NoTemplate
  /\ InitWorkers
  /\ NoExport
  /\ reusable_content = << >>
  /\ title \in Titles
  /\ filename = None
  /\ read_slides = None
  /\ gen_pptx = None
  /\ gen_pdf = None
  /\ run = None
  /\ content_session = << >>

\* main.export_pptx and main.export_pdf name the download
ExportFilename(extension) ==
  /\ filename = None
  /\ filename' = Some(get_export_filename(title, extension))
  /\ UNCHANGED << buildvars, exvars, reusable_content, title, read_slides, gen_pptx, gen_pdf, run, content_session >>

NextFilename == \E extension \in {"pptx", "pdf"} : ExportFilename(extension)

SpecFilename == InitFilename /\ [][NextFilename]_vars

\* the characters of a text
Chars(t) == {t[k] : k \in 1..Len(t)}

\* C23 as stated: the sanitized part holds only alphanumerics, spaces, hyphens
\* and underscores, each of them a character of the title, and at most 50 of them
C23_SanitizedFromTitle ==
  filename # None =>
     /\ Len(filename[1].safe_title) <= SAFE_TITLE_LENGTH
     /\ \A c \in Chars(filename[1].safe_title) : Kept(c) /\ c \in Chars(title)

\* C23, amended: the sanitized part holds at most 50 characters, each an
\* alphanumeric, hyphen or underscore; every one of them is a character of the
\* title, except that an underscore may stand for a space of the title, and
\* the part holds no space
C23_SanitizedUnderscored ==
  filename # None =>
     /\ Len(filename[1].safe_title) <= SAFE_TITLE_LENGTH
     /\ \A c \in Chars(filename[1].safe_title) :
           /\ isalnum(c) \/ c \in {"-", "_"}
           /\ c \in Chars(title) \/ (c = "_" /\ " " \in Chars(title))

\* a title longer than the limit with a space inside and a dropped character
C23_Witness ==
  /\ filename # None
  /\ Len(join(title)) > SAFE_TITLE_LENGTH
  /\ "/" \in Chars(title)
  /\ "_" \in Chars(filename[1].safe_title) /\ "_" \notin Chars(title)

\* ---------------------------------------------------------------------
\* Reusable content: crud.create_content and crud.update_content
\* ---------------------------------------------------------------------
\* the most rows of the table and the highest version an update starts from
MaxContentRows == 2

MaxVersion == 2

\* the database sessions that serve PUT /api/content/{id} requests
Sessions == {1, 2}

\* ReusableContentCreate bodies
ReusableContentCreates == [brand_id : BrandIds, content_key : {"history"}, title : {"Our History"}, content : {EmptyDict}]

\* ReusableContentUpdate bodies; an Option that is None is an unset field
ReusableContentUpdates == [title : Option({"Our Story"}), content : Option({[items |-> << >>]})]

IdleSession == [status |-> "idle", content_id |-> 0, version |-> 0, body |-> EmptyDict]

\* create_content, lines 146-151: the row is added as given; version takes the
\* column default 1
create_content(content) ==
  /\ Len(reusable_content) < MaxContentRows
  /\ reusable_content' = Append(reusable_content, [brand_id |-> content.brand_id, content_key |-> content.content_key, title |-> content.title, content |-> content.content, version |-> 1])
  /\ UNCHANGED << buildvars, exvars, title, filename, read_slides, gen_pptx, gen_pdf, run, content_session >>

\* update_content, line 155: the session loads the row; no row gives None and
\* the endpoint answers 404
UpdateContentQuery(s, content_id, body) ==
  /\ content_session[s].status = "idle"
  /\ IF content_id \in 1..Len(reusable_content)
     THEN /\ reusable_content[content_id].version <= MaxVersion
          /\ content_session' = [content_session EXCEPT ![s] = [status |-> "loaded", content_id |-> content_id, version |-> reusable_content[content_id].version, body |-> body]]
     ELSE content_session' = [content_session EXCEPT ![s] = [IdleSession EXCEPT !.status = "http404"]]
  /\ UNCHANGED << buildvars, exvars, reusable_content, title, filename, read_slides, gen_pptx, gen_pdf, run >>

\* update_content, lines 157-160: the fields of the body that are set replace
\* the row's, version becomes the loaded version plus one, and the commit
\* writes the changed columns
UpdateContentCommit(s) ==
  /\ content_session[s].status = "loaded"
  /\ LET loaded == content_session[s]
     IN  reusable_content' = [reusable_content EXCEPT ![loaded.content_id] =
           [@ EXCEPT !.title = IF loaded.body.title # None THEN loaded.body.title[1] ELSE @,
                     !.content = IF loaded.body.content # None THEN loaded.body.content[1] ELSE @,
                     !.version = loaded.version + 1]]
  /\ content_session' = [content_session EXCEPT ![s] = [@ EXCEPT !.status = "done"]]
  /\ UNCHANGED << buildvars, exvars, title, filename, read_slides, gen_pptx, gen_pdf, run >>

\* the response is sent and the session is closed
UpdateContentRespond(s) ==
  /\ content_session[s].status \in {"done", "http404"}
  /\ content_session' = [content_session EXCEPT ![s] = IdleSession]
  /\ UNCHANGED << buildvars, exvars, reusable_content, title, filename, read_slides, gen_pptx, gen_pdf, run >>

InitContent ==
  /\ brand \in {Some(b) : b \in Brands}
  /\ facility \in {Some(f) : f \in Facilities}
  /\ logo_assets = {}
  /\ games = [g \in AnyGameIds |-> IF g \in GameIds THEN Some(GameRow(g, TRUE)) ELSE None]
  /\ InitPresentations
  /\ NoTemplate
  /\ InitWorkers
  /\ NoExport
  /\ reusable_content = << >>
  /\ title = << >>
  /\ filename = None
  /\ read_slides = None
  /\ gen_pptx = None
  /\ gen_pdf = None
  /\ run = None
  /\ content_session = [s \in Sessions |-> IdleSession]

NextContent ==
  \/ \E content \in ReusableContentCreates : create_content(content)
  \/ \E s \in Sessions, content_id \in 1..(MaxContentRows + 1), body \in ReusableContentUpdates : UpdateContentQuery(s, content_id, body)
  \/ \E s \in Sessions : UpdateContentCommit(s)
  \/ \E s \in Sessions : UpdateContentRespond(s)

SpecContent == InitContent /\ [][NextContent]_vars

\* session s completes a successful update_content call in this step
Updates(s) == content_session[s].status = "loaded" /\ content_session'[s].status = "done"

\* C24: a successful update_content call leaves the record's version exactly
\* one above what it was, and no step lowers the version of a record
C24_VersionBumped ==
  [][/\ \A s \in Sessions : Updates(s) =>
           reusable_content'[content_session[s].content_id].version = reusable_content[content_session[s].content_id].version + 1
     /\ \A k \in 1..Len(reusable_content) : reusable_content'[k].version >= reusable_content[k].version]_vars

\* C25: no two rows of the content table have the same brand_id and content_key
C25_KeyUniquePerBrand ==
  \A j, k \in 1..Len(reusable_content) :
     (reusable_content[j].brand_id = reusable_content[k].brand_id /\ reusable_content[j].content_key = reusable_content[k].content_key) => j = k

\* the list t without the entries at the positions in `drop`
Without(t, drop) ==
  LET F[k \in 0..Len(t)] == IF k = 0 THEN << >> ELSE IF k \in drop THEN F[k - 1] ELSE Append(F[k - 1], t[k])
  IN  F[Len(t)]

\* the positions of the first and second RaffleBumper of AV3_SLIDE_TYPES
RaffleSlots ==
  LET at == {k \in 1..Len(AV3_SLIDE_TYPES) : AV3_SLIDE_TYPES[k] = "RaffleBumper"}
  IN  << CHOOSE k \in at : \A j \in at : k <= j, CHOOSE k \in at : \A j \in at : k >= j >>

\* C26: the slide types of a build are AV3_SLIDE_TYPES for raffle_count >= 2,
\* that list without its second RaffleBumper for raffle_count = 1 and without
\* both for raffle_count <= 0, whatever the icebreaker and the selection; so
\* the blocks keep their relative order, TitleSlide first and EndSlide last
C26_DefaultOrder ==
  \A w \in Workers :
    pc[w] = "generated" =>
      LET rc == RaffleCount(req[w].config)[1]
          types == SlideTypes(built[w])
      IN  /\ rc >= 2 => types = AV3_SLIDE_TYPES /\ Len(types) = 25
          /\ rc = 1 => types = Without(AV3_SLIDE_TYPES, {RaffleSlots[2]})
          /\ rc <= 0 => types = Without(AV3_SLIDE_TYPES, {RaffleSlots[1], RaffleSlots[2]})
          /\ types[1] = "TitleSlide" /\ types[Len(types)] = "EndSlide"

\* a build with one raffle, an icebreaker and the longest selection
C26_Witness ==
  \E w \in Workers :
    /\ pc[w] = "generated"
    /\ RaffleCount(req[w].config) = Some(1)
    /\ IcebreakerGame(req[w].config) # None
    /\ Len(SelectedGameIds(req[w].config)) = MaxSel
    /\ Len(built[w]) = Len(AV3_SLIDE_TYPES) - 1

\* the replacements update_template_slide uses on the k-th slide of the export
SlideReplacements(k) == Replacements(k - 1, brand[1], content_map(get_content(reusable_content, BRAND_ID)))

\* the text holds a placeholder key of the replacements
HoldsKey(text, replacements) == \E i \in 1..Len(replacements) : In(replacements[i][1], text)

\* the shape is as in the template, or it is a text box whose template text
\* holds a placeholder key of its slide
KeptOrRewritten(new, old, k) ==
  \/ new = old
  \/ old.shape_type = "TEXT_BOX" /\ new.shape_type = "TEXT_BOX" /\ HoldsKey(old.text, SlideReplacements(k))

TextBoxes(shapes) == SelectSeq(shapes, LAMBDA sh : sh.shape_type = "TEXT_BOX")

C29_LogoNeverRemoved ==
  [][(epc = "logo" /\ LogoApplies) =>
        LET old == pptx[slide_idx + 1]
            new == pptx'[slide_idx + 1]
            k == LargestPicture(old)
        IN  /\ Len(Pictures(new)) >= Len(Pictures(old))
            /\ k = 0 => new = old
            /\ k # 0 => \E j \in 1..Len(new) :
                           \/ new[j] = old[k]
                           \/ new[j] = Picture(facility_logo_path[1], old[k].left, old[k].top, old[k].width, old[k].height)]_vars

\* the rows are in ascending order of their order values
Ascending(rows) == \A k \in 1..(Len(rows) - 1) : rows[k].order <= rows[k + 1].order

\* the two lists hold the same rows, each as often as the other
SameRows(a, b) ==
  /\ Len(a) = Len(b)
  /\ \A k \in 1..Len(a) :
        Cardinality({j \in 1..Len(a) : a[j] = a[k]}) = Cardinality({j \in 1..Len(b) : b[j] = a[k]})

\* the slide types add_slide_to_pptx and add_slide_to_pdf have a recipe for
PptxRecipes == {"WelcomeIntro", "RaffleBumper", "HistoryBlock", "FootprintBlock", "RegionsBlock", "CultureBlock", "GameSlide", "PillarsClosing"}

PdfRecipes == {"WelcomeIntro", "RaffleBumper", "GameSlide", "PillarsClosing"}

\* an export of presentation 1 by the backend completes in this step
Exports(before_export, after_export, recipes) ==
  /\ before_export = None
  /\ after_export # None
  /\ after_export[1].status = "ok"
  =>
  /\ SameRows(after_export[1].rows, slides[1])
  /\ Ascending(after_export[1].rows)
  /\ Len(after_export[1].pages) = Len(after_export[1].rows)
  /\ \A k \in 1..Len(after_export[1].rows) :
        after_export[1].rows[k].slide_type \notin recipes => after_export[1].pages[k].layout = "generic"

\* C28: an export by a generated backend emits one slide or page for each
\* stored row of the presentation, in ascending order value, and draws a row
\* whose slide_type has no recipe with the generic layout
C28_OnePagePerRow ==
  [][/\ Exports(gen_pptx, gen_pptx', PptxRecipes)
     /\ Exports(gen_pdf, gen_pdf', PdfRecipes)]_vars

\* both backends exported a built presentation
C28_Witness ==
  /\ gen_pptx # None /\ gen_pdf # None
  /\ Len(gen_pptx[1].pages) = Len(AV3_SLIDE_TYPES)
  /\ Len(gen_pdf[1].pages) = Len(AV3_SLIDE_TYPES) - 1
  /\ gen_pptx[1].pages[1].layout = "generic"
  /\ \E k \in 1..Len(gen_pdf[1].pages) : gen_pdf[1].pages[k].layout = "raffle"

\* worker w is between the start and the end of a build_slides call on a
\* presentation that exists
Rebuilding(w) == pc[w] \in {"generated", "cleared", "inserted"} /\ req[w].presentation_id \in PresentationIds

\* the rows are the complete list of before the build of w or the complete
\* list it stores
OldOrNew(rows, w) == SameRows(rows, before[w].slides) \/ SameRows(rows, SlideRows(built[w]))

\* a read of the slides of the presentation w rebuilds returns in this step
ReadsDuring(before_read, after_read, w) ==
  /\ before_read = None
  /\ after_read # None
  /\ Rebuilding(w)
  /\ req[w].presentation_id = 1

\* C30: a read of the slides made by get_present_data or an export while
\* build_slides runs on the same presentation returns the complete list of
\* before the rebuild or the complete new list
C30_ReadsSeeOldOrNew ==
  [][\A w \in Workers :
        /\ ReadsDuring(read_slides, read_slides', w) => OldOrNew(read_slides'[1], w)
        /\ (ReadsDuring(gen_pptx, gen_pptx', w) /\ gen_pptx'[1].status = "ok") => OldOrNew(gen_pptx'[1].rows, w)
        /\ (ReadsDuring(gen_pdf, gen_pdf', w) /\ gen_pdf'[1].status = "ok") => OldOrNew(gen_pdf'[1].rows, w)]_vars

====
